---- MODULE Spec2Model ----
(***************************************************************************)
(* Model of server.py, the ODIA TTS gateway: the lazy chat-provider client *)
(* (get_openai_client), /health, /speak, /agent and /speak-agent, with     *)
(* several requests in flight on the one asyncio event loop.               *)
(*                                                                         *)
(* Strings are sequences of one-character strings, so that str.strip(),    *)
(* truthiness and the provider's percent syntax are computed, not assumed. *)
(***************************************************************************)
EXTENDS Integers, Sequences, FiniteSets, TLC

\* ---------------------------------------------------------------- bounds
NumReqs == 2
Capacity == 1

Reqs == 1..NumReqs

\* ---------------------------------------------------------------- values
\* Python's None, and the fastapi.Query(...) object that is the default value
\* of speak()'s rate and volume parameters when speak() is called as a plain
\* function. Neither is a string of characters.
None == <<"None">>
QueryDefault == <<"Query">>

IsStr(x) == x # None /\ x # QueryDefault

\* Python truthiness of an Optional[str] or of a Query object.
Truthy(x) == x # None /\ x # <<>>

\* Python's `a or b`.
Or(a, b) == IF Truthy(a) THEN a ELSE b

RECURSIVE lstrip(_)
lstrip(s) == IF s # <<>> /\ Head(s) = " " THEN lstrip(Tail(s)) ELSE s

RECURSIVE rstrip(_)
rstrip(s) == IF s # <<>> /\ s[Len(s)] = " " THEN rstrip(SubSeq(s, 1, Len(s) - 1)) ELSE s

\* str.strip()
strip(s) == rstrip(lstrip(s))

\* ---------------------------------------------------------------- percent
Digits == {"0", "1", "2", "3", "4", "5", "6", "7", "8", "9"}

P_default == <<"+", "0", "%">>
P_zero    == <<"0", "%">>

\* The raw rate / volume strings a caller may put in the query string; None is
\* the parameter left out.
PercentInputs ==
    { None, <<>>, P_zero, <<"0">>, <<"+", "0">>, <<"5">>, <<"-", "5", "%">>,
      <<"+", "1", "0", "%">>, <<"%", "%", "5", "%">> }

\* FastAPI's Query("+0%"): a parameter left out of the query string takes the
\* declared default.
QueryParam(raw) == IF raw = None THEN P_default ELSE raw

\* rate = rate if rate and rate != "0%" else "+0%"
DefaultPercent(x) == IF Truthy(x) /\ x # P_zero THEN x ELSE P_default

\* The synthesis provider's percent-delta syntax, ^[+-]\d+%$, which
\* edge_tts.Communicate(...) enforces on rate and volume when it is built.
MatchesPercent(x) ==
    /\ IsStr(x)
    /\ Len(x) >= 3
    /\ x[1] \in {"+", "-"}
    /\ x[Len(x)] = "%"
    /\ \A i \in 2..(Len(x) - 1) : x[i] \in Digits

CommunicateAccepts(rate, volume) == MatchesPercent(rate) /\ MatchesPercent(volume)

\* ---------------------------------------------------------------- state
VARIABLES
    OPENAI_API_KEY,  \* whether the credential is configured (fixed at startup)
    oai,             \* the module global _oai
    loop,            \* the request whose synchronous call holds the event loop, or 0
    req              \* the requests: inputs, position and response of each

vars == <<OPENAI_API_KEY, oai, loop, req>>

oaiNone   == [state |-> "None", id |-> 0]
oaiFalse  == [state |-> "False", id |-> 0]
oaiClient(n) == [state |-> "Client", id |-> n]

\* What the chat provider does with one chat-completion call: it raises exc, or
\* returns a response whose choices[0].message.content is content.
NoOutcome == [kind |-> "none", exc |-> "none", content |-> None]

\* choices[0].message.content: absent, whitespace only, or text to trim.
Contents == {None, <<" ">>, <<" ", "b">>}

ChatExcs == {"APITimeoutError", "RateLimitError"}

ChatOutcomes ==
    {[kind |-> "raise", exc |-> e, content |-> None] : e \in ChatExcs}
    \cup {[kind |-> "content", exc |-> "none", content |-> c] :
               c \in Contents}

Idle ==
    [ kind |-> "none", pc |-> "idle",
      message |-> None, text |-> None,
      rawRate |-> None, rawVolume |-> None,
      user_msg |-> None,
      lookedUp |-> FALSE, constructed |-> FALSE, client |-> 0,
      called |-> FALSE, outcome |-> NoOutcome,
      status |-> 0, mode |-> "none", reply |-> None, error |-> None,
      openai |-> "none",
      synth |-> "none", synthText |-> None, rate |-> None, volume |-> None,
      exc |-> "none", media |-> "none" ]

Init ==
    /\ OPENAI_API_KEY \in BOOLEAN
    /\ oai = oaiNone
    /\ loop = 0
    /\ req = [r \in Reqs |-> Idle]

\* ---------------------------------------------------------------- client
\* The identity of the next client object OpenAI(...) would create: clients are
\* numbered in the order of their construction.
NextClient == 1 + Cardinality({q \in Reqs : req[q].constructed /\ req[q].client # 0})

\* Variant: `if not _oai and OPENAI_API_KEY`, which tries again after a failure.
get_openai_client_retry(o, key, ok, n) ==
    LET try  == o.state # "Client" /\ key
        o2   == IF try THEN (IF ok THEN oaiClient(n) ELSE oaiFalse) ELSE o
    IN  [oai |-> o2, client |-> IF o2.state = "Client" THEN o2.id ELSE 0, attempted |-> try]

\* get_openai_client(): o is _oai, key is OPENAI_API_KEY, ok says whether the
\* import and the constructor succeed, n names the client a success creates.
\* Gives the new _oai, the value returned (0 for None) and whether construction
\* was attempted.
get_openai_client(o, key, ok, n) ==
    LET try  == o.state = "None" /\ key
        o2   == IF try THEN (IF ok THEN oaiClient(n) ELSE oaiFalse) ELSE o
    IN  [oai |-> o2, client |-> IF o2.state = "Client" THEN o2.id ELSE 0, attempted |-> try]

\* ---------------------------------------------------------------- /health
health(r, ok) ==
    /\ loop = 0
    /\ req[r].pc = "idle"
    /\ IF OPENAI_API_KEY
       THEN LET g == get_openai_client(oai, OPENAI_API_KEY, ok, NextClient)
            IN  /\ oai' = g.oai
                /\ req' = [req EXCEPT ![r] =
                       [@ EXCEPT !.kind = "health", !.pc = "done", !.status = 200,
                                 !.lookedUp = TRUE, !.constructed = g.attempted,
                                 !.client = g.client,
                                 !.openai = IF g.client # 0 THEN "ready" ELSE "failed"]]
       ELSE /\ oai' = oai
            /\ req' = [req EXCEPT ![r] =
                   [@ EXCEPT !.kind = "health", !.pc = "done", !.status = 200,
                             !.openai = "not_configured"]]
    /\ UNCHANGED <<OPENAI_API_KEY, loop>>

\* ---------------------------------------------------------------- /speak
\* speak() from its first line up to `await communicate.save(tmp_path)`:
\* the defaults of lines 126-127, then edge_tts.Communicate(...), whose
\* exception (bad rate or volume) the handler turns into a 500.
speak_body(rec, text, rate, volume) ==
    LET rt == DefaultPercent(rate)
        vl == DefaultPercent(volume)
    IN  IF CommunicateAccepts(rt, vl)
        THEN [rec EXCEPT !.pc = "speak_await", !.synth = "await", !.synthText = text,
                         !.rate = rt, !.volume = vl]
        ELSE [rec EXCEPT !.pc = "done", !.synth = "rejected", !.synthText = text,
                         !.rate = rt, !.volume = vl,
                         !.exc = "BadParameter", !.status = 500]

speak(r, text, rawRate, rawVolume) ==
    /\ loop = 0
    /\ req[r].pc = "idle"
    /\ req' = [req EXCEPT ![r] =
           speak_body([@ EXCEPT !.kind = "speak", !.rawRate = rawRate,
                                !.rawVolume = rawVolume],
                      text, QueryParam(rawRate), QueryParam(rawVolume))]
    /\ UNCHANGED <<OPENAI_API_KEY, oai, loop>>

\* communicate.save() completes: FileResponse(..., media_type="audio/mpeg").
save_ok(r) ==
    /\ loop = 0
    /\ req[r].pc = "speak_await"
    /\ req' = [req EXCEPT ![r] =
           [@ EXCEPT !.pc = "done", !.synth = "ok", !.status = 200,
                     !.media = "audio/mpeg"]]
    /\ UNCHANGED <<OPENAI_API_KEY, oai, loop>>

SynthExcs == {"NoAudioReceived", "OtherError"}

\* The status `except Exception` gives a synthesis exception.
speak_error_status(e) == 500

\* communicate.save() raises e.
save_fail(r, e) ==
    /\ loop = 0
    /\ req[r].pc = "speak_await"
    /\ req' = [req EXCEPT ![r] =
           [@ EXCEPT !.pc = "done", !.synth = "failed", !.exc = e,
                     !.status = speak_error_status(e)]]
    /\ UNCHANGED <<OPENAI_API_KEY, oai, loop>>

\* ---------------------------------------------------------------- /agent
\* Variant: user_msg without .strip().
UserMsg_nostrip(m, t) == Or(Or(m, t), <<>>)

\* user_msg = (body.message or body.text or "").strip()
UserMsg(m, t) == strip(Or(Or(m, t), <<>>))

\* Variant: no `except Exception`, so a failed call ends the handler with a 500.
agent_reply_propagate(user_msg, client, outcome) ==
    IF client # 0
    THEN LET reply == IF outcome.kind = "content" THEN strip(Or(outcome.content, <<>>)) ELSE <<>>
         IN  IF outcome.kind = "content" /\ Truthy(reply)
             THEN [status |-> 200, reply |-> reply, mode |-> "ai", error |-> None]
             ELSE [status |-> 500, reply |-> None, mode |-> "none", error |-> None]
    ELSE [status |-> 200, reply |-> user_msg, mode |-> "echo",
          error |-> <<"openai_not_configured">>]

\* Variant: no `if not reply: raise ValueError(...)`.
agent_reply_noemptycheck(user_msg, client, outcome) ==
    IF client # 0
    THEN IF outcome.kind = "content"
         THEN [status |-> 200, reply |-> strip(Or(outcome.content, <<>>)), mode |-> "ai",
               error |-> None]
         ELSE [status |-> 200, reply |-> user_msg, mode |-> "echo",
               error |-> <<"ai_error", outcome.exc>>]
    ELSE [status |-> 200, reply |-> user_msg, mode |-> "echo",
          error |-> <<"openai_not_configured">>]

\* agent() from `error_msg = None` to its return, given the client that
\* get_openai_client() returned (0 for None) and, when there is a client, what
\* the chat-completion call did.
agent_reply(user_msg, client, outcome) ==
    IF client # 0
    THEN LET reply == IF outcome.kind = "content" THEN strip(Or(outcome.content, <<>>)) ELSE <<>>
         IN  IF outcome.kind = "content" /\ Truthy(reply)
             THEN [status |-> 200, reply |-> reply, mode |-> "ai", error |-> None]
             ELSE [status |-> 200, reply |-> user_msg, mode |-> "echo",
                   error |-> <<"ai_error",
                               IF outcome.kind = "raise" THEN outcome.exc ELSE "ValueError">>]
    ELSE [status |-> 200, reply |-> user_msg, mode |-> "echo",
          error |-> <<"openai_not_configured">>]

\* What follows agent()'s return: /agent sends the AgentOut; /speak-agent goes
\* on to `await speak(text=agent_response.reply, voice=TTS_VOICE_DEFAULT)`, a
\* plain call in which rate and volume keep their declared default objects.
\* An exception out of agent() ends either handler.
after_agent(rec, res) ==
    LET rec2 == [rec EXCEPT !.mode = res.mode, !.reply = res.reply, !.error = res.error]
    IN  IF res.status # 200 \/ rec.kind = "agent"
        THEN [rec2 EXCEPT !.pc = "done", !.status = res.status]
        ELSE speak_body(rec2, res.reply, QueryDefault, QueryDefault)

\* agent(body), reached from POST /agent or from speak_agent's
\* `await agent(body)`, up to its return or to the start of the synchronous
\* client.chat.completions.create(...), which holds the event loop.
agent(r, kind, m, t, ok) ==
    /\ loop = 0
    /\ req[r].pc = "idle"
    /\ LET user_msg == UserMsg(m, t)
           rec == [req[r] EXCEPT !.kind = kind, !.message = m, !.text = t,
                                 !.user_msg = user_msg]
       IN  IF ~Truthy(user_msg)
           THEN /\ req' = [req EXCEPT ![r] = [rec EXCEPT !.pc = "done", !.status = 422]]
                /\ UNCHANGED <<oai, loop>>
           ELSE LET g == get_openai_client(oai, OPENAI_API_KEY, ok, NextClient)
                    rec2 == [rec EXCEPT !.lookedUp = TRUE, !.constructed = g.attempted,
                                        !.client = g.client]
                IN  /\ oai' = g.oai
                    /\ IF g.client # 0
                       THEN /\ req' = [req EXCEPT ![r] =
                                   [rec2 EXCEPT !.pc = "agent_call", !.called = TRUE]]
                            /\ loop' = r
                       ELSE /\ req' = [req EXCEPT ![r] =
                                   after_agent(rec2, agent_reply(user_msg, 0, NoOutcome))]
                            /\ loop' = loop
    /\ UNCHANGED OPENAI_API_KEY

\* client.chat.completions.create(...) returns or raises, and agent() runs to
\* its return.
chat_return(r, outcome) ==
    /\ loop = r
    /\ req[r].pc = "agent_call"
    /\ req' = [req EXCEPT ![r] =
           after_agent([@ EXCEPT !.outcome = outcome],
                       agent_reply(req[r].user_msg, req[r].client, outcome))]
    /\ loop' = 0
    /\ UNCHANGED <<OPENAI_API_KEY, oai>>

\* ---------------------------------------------------------------- system
\* The inputs of the requests. `message` and `text` of an AgentIn body: left
\* out, empty, whitespace only, plain, and padded with whitespace.
Messages == {None, <<>>, <<" ">>, <<"a">>, <<" ", "a", " ">>}
TextAliases == {None, <<" ">>, <<"c", " ">>}

\* /speak's text, which FastAPI has validated (1..5000 characters).
Texts == {<<"a">>}

Step(r) ==
    \/ /\ req[r].pc = "idle"
       /\ \E ok \in BOOLEAN : health(r, ok)
    \/ /\ req[r].pc = "idle"
       /\ \E text \in Texts, rate \in PercentInputs, volume \in PercentInputs :
             speak(r, text, rate, volume)
    \/ save_ok(r)
    \/ \E e \in SynthExcs : save_fail(r, e)
    \/ /\ req[r].pc = "idle"
       /\ \E kind \in {"agent", "speak_agent"}, m \in Messages, t \in TextAliases,
             ok \in BOOLEAN :
             agent(r, kind, m, t, ok)
    \/ /\ req[r].pc = "agent_call"
       /\ \E outcome \in ChatOutcomes : chat_return(r, outcome)

Next == \E r \in Reqs : Step(r)

\* The whole server: every endpoint, NumReqs requests in flight.
Spec == Init /\ [][Next]_vars

\* The server under /health and /agent traffic only: the two callers of
\* get_openai_client().
StepAgent(r) ==
    \/ /\ req[r].pc = "idle"
       /\ \E ok \in BOOLEAN : health(r, ok)
    \/ /\ req[r].pc = "idle"
       /\ \E m \in Messages, t \in TextAliases, ok \in BOOLEAN : agent(r, "agent", m, t, ok)
    \/ /\ req[r].pc = "agent_call"
       /\ \E outcome \in ChatOutcomes : chat_return(r, outcome)

NextAgent == \E r \in Reqs : StepAgent(r)

SpecAgent == Init /\ [][NextAgent]_vars

\* ================================================================ claims
\* Vocabulary of the claims, stated without the model's own operators.

\* x is missing, empty or whitespace only.
IsBlank(x) == x = None \/ \A i \in 1..Len(x) : x[i] = " "

\* s without its leading and trailing whitespace.
TrimOf(s) ==
    LET idx == {i \in 1..Len(s) : s[i] # " "}
    IN  IF idx = {} THEN <<>>
        ELSE SubSeq(s, CHOOSE i \in idx : \A j \in idx : i <= j,
                       CHOOSE i \in idx : \A j \in idx : j <= i)

\* The text the caller of /agent supplied: `message`, or its alias `text` when
\* `message` is missing or empty.
Original(r) ==
    IF req[r].message # None /\ req[r].message # <<>> THEN req[r].message ELSE req[r].text

\* The chat-completion call raised, timed out, or returned empty text.
FailedCall(o) == o.kind = "raise" \/ (o.kind = "content" /\ IsBlank(o.content))

\* An /agent request whose chat-completion call was made and has failed.
AgentFailed(r) ==
    /\ req[r].kind = "agent"
    /\ req[r].pc = "done"
    /\ req[r].called
    /\ FailedCall(req[r].outcome)

EchoWithError(r) ==
    /\ req[r].status = 200
    /\ req[r].mode = "echo"
    /\ req[r].error # None
    /\ Len(req[r].error) = 2
    /\ req[r].error[1] = "ai_error"

\* C1 as stated: when the chat-completion call of an /agent request raises,
\* times out or returns empty text, the request returns 200 with mode=echo, an
\* error classification, and a reply equal to the original user message.
C1_Original ==
    \A r \in Reqs : AgentFailed(r) => EchoWithError(r) /\ req[r].reply = Original(r)

\* C1 amended: ... and a reply equal to the user message with its leading and
\* trailing whitespace removed.
C1_EchoOnFailure ==
    \A r \in Reqs : AgentFailed(r) => EchoWithError(r) /\ req[r].reply = TrimOf(Original(r))

C1_Witness ==
    \E r \in Reqs :
        /\ AgentFailed(r)
        /\ req[r].outcome.exc = "APITimeoutError"
        /\ req[r].message = <<" ", "a", " ">>
        /\ req[r].reply = <<"a">>

\* C2: every AgentOut that agent() returns has mode=ai only when the provider
\* gave non-empty text, and then reply is that text trimmed and error is null;
\* in every other outcome mode=echo and error is not null. Never mode=ai with
\* an empty reply, never mode=echo with a null error.
C2_ReplyInvariant ==
    \A r \in Reqs :
        (req[r].kind = "agent" /\ req[r].pc = "done" /\ req[r].status = 200) =>
            LET got == req[r].called /\ req[r].outcome.kind = "content"
                          /\ ~IsBlank(req[r].outcome.content)
            IN  /\ req[r].mode \in {"ai", "echo"}
                /\ req[r].mode = "ai" <=> got
                /\ req[r].mode = "ai" =>
                       /\ req[r].reply = TrimOf(req[r].outcome.content)
                       /\ req[r].reply # <<>>
                       /\ req[r].error = None
                /\ req[r].mode = "echo" => req[r].error # None

C2_Witness ==
    \E r \in Reqs :
        /\ req[r].kind = "agent" /\ req[r].pc = "done"
        /\ req[r].mode = "ai"
        /\ req[r].outcome.content = <<" ", "b">>
        /\ req[r].reply = <<"b">>

\* C3: an /agent request whose message is empty or whitespace only is rejected
\* with 422 before anything else happens: get_openai_client() is not called, no
\* client is constructed, no chat-completion call is issued, and _oai is left
\* as it was, whatever the credential and the state of the client.
C3_State ==
    \A r \in Reqs :
        (req[r].kind = "agent" /\ IsBlank(Original(r))) =>
            /\ req[r].pc = "done"
            /\ req[r].status = 422
            /\ ~req[r].lookedUp
            /\ ~req[r].constructed
            /\ ~req[r].called
            /\ req[r].mode = "none"

C3_Step ==
    \A r \in Reqs :
        (req[r].pc = "idle" /\ req'[r].kind = "agent" /\ IsBlank(Original(r)')) =>
            /\ oai' = oai
            /\ loop' = loop

\* C3: the rejection holds in every state and no rejecting step touches _oai.
C3_RejectedFirst == []C3_State /\ [][C3_Step]_vars

C3_Witness ==
    \E r \in Reqs :
        /\ req[r].kind = "agent"
        /\ req[r].message = <<" ">>
        /\ req[r].status = 422
        /\ OPENAI_API_KEY
        /\ oai.state = "Client"

\* C9: construction of the chat-provider client is attempted at most once over
\* any sequence of get_openai_client() calls from /health and /agent; with no
\* credential it is never attempted and every call returns no client; once it
\* has failed, every later call returns no client without a new attempt; once
\* it has succeeded, every later call returns that same client.
C9_State ==
    /\ Cardinality({r \in Reqs : req[r].constructed}) <= 1
    /\ ~OPENAI_API_KEY =>
           /\ oai.state = "None"
           /\ \A r \in Reqs : ~req[r].constructed /\ req[r].client = 0

\* The request whose handler calls get_openai_client() in this step.
Calls(r) == ~req[r].lookedUp /\ req'[r].lookedUp

C9_Step ==
    /\ oai.state = "False" =>
           /\ oai' = oai
           /\ \A r \in Reqs : Calls(r) => ~req'[r].constructed /\ req'[r].client = 0
    /\ oai.state = "Client" =>
           /\ oai' = oai
           /\ \A r \in Reqs : Calls(r) => ~req'[r].constructed /\ req'[r].client = oai.id

\* C9: at most one construction ever, and no step retries or replaces it.
C9_NeverRetry == []C9_State /\ [][C9_Step]_vars

C9_Witness ==
    /\ oai.state = "False"
    /\ \E r, q \in Reqs :
           /\ req[r].kind = "health" /\ req[r].constructed /\ req[r].openai = "failed"
           /\ req[q].kind = "agent" /\ req[q].lookedUp /\ ~req[q].constructed
           /\ req[q].client = 0
           /\ req[q].error = <<"openai_not_configured">>

\* C4 as stated: when the agent step of /speak-agent degrades to echo, the
\* synthesis step still runs, on the echoed text and with a rate and a volume
\* in the provider's syntax, and the response is 200 audio/mpeg unless the
\* provider itself fails.
C4_Claim ==
    \A r \in Reqs :
        (req[r].kind = "speak_agent" /\ req[r].mode = "echo") =>
            /\ req[r].synth # "none"
            /\ req[r].synthText = req[r].reply
            /\ MatchesPercent(req[r].rate)
            /\ MatchesPercent(req[r].volume)
            /\ (req[r].pc = "done" /\ req[r].exc = "none") =>
                   req[r].status = 200 /\ req[r].media = "audio/mpeg"

\* C5 as stated: a token bucket of capacity C guards /speak, so that of a
\* burst of C+1 requests at most C reach the synthesis provider and the other
\* is answered 429 without a provider call.
C5_Claim ==
    LET speaks   == {r \in Reqs : req[r].kind = "speak"}
        admitted == {r \in speaks : req[r].status # 429}
    IN  /\ Cardinality(admitted) <= Capacity
        /\ \A r \in speaks : req[r].status = 429 => req[r].synth = "none"

\* A raw percent input that is blank or stands for zero.
ZeroEquivalent(raw) == raw \in {None, <<>>, <<"0", "%">>, <<"0">>, <<"+", "0">>}

\* C6 as stated: whatever raw rate and volume a /speak request carries, the
\* values handed to the synthesis provider match ^[+-]\d+%$, and blank or
\* zero-equivalent inputs are handed over as exactly "+0%".
C6_Claim ==
    \A r \in Reqs :
        (req[r].kind = "speak" /\ req[r].synth # "none") =>
            /\ MatchesPercent(req[r].rate)
            /\ MatchesPercent(req[r].volume)
            /\ ZeroEquivalent(req[r].rawRate) => req[r].rate = <<"+", "0", "%">>
            /\ ZeroEquivalent(req[r].rawVolume) => req[r].volume = <<"+", "0", "%">>

\* C7 as stated: a synthesis that fails because the provider reported that no
\* audio was produced is answered 502, any other synthesis exception 500.
C7_Claim ==
    \A r \in Reqs :
        req[r].synth = "failed" =>
            req[r].status = IF req[r].exc = "NoAudioReceived" THEN 502 ELSE 500

\* A handler that has started and not yet returned: it waits for the chat
\* provider or for the synthesis provider.
InFlight(r) == req[r].pc \in {"agent_call", "speak_await"}

\* C8 as stated: while one handler waits for its provider, any other handler
\* in flight can take its next step.
C8_Claim ==
    \A r, q \in Reqs : (r # q /\ InFlight(r) /\ InFlight(q)) => ENABLED Step(q)

\* C10 as stated: an /agent body is rejected with 422 only when `message` and
\* `text` are both missing or blank; when `message` is blank and `text` is not,
\* the request goes on with the trimmed `text` as the user message.
C10_Claim ==
    \A r \in Reqs :
        (req[r].kind = "agent" /\ req[r].pc # "idle") =>
            /\ req[r].status = 422 <=> (IsBlank(req[r].message) /\ IsBlank(req[r].text))
            /\ (IsBlank(req[r].message) /\ ~IsBlank(req[r].text)) =>
                   req[r].user_msg = TrimOf(req[r].text)

====
